---- MODULE Spec2Model ----
(***************************************************************************)
(* Model of the OLED presentation engine of chimellm                       *)
(* (src/oled_manager.py, class OLEDManager) and of its callers.            *)
(*                                                                         *)
(* Threads: one producer thread that calls the public methods of           *)
(* OLEDManager statement by statement, one thread per threading.Timer      *)
(* created by _set_temporary_message, and the main thread running the      *)
(* render loop of DoorbellSystem.run.  The code takes no lock, so every    *)
(* statement of a method is a step of its own and the threads interleave   *)
(* freely (Spec).  SeqSpec is the same program with every method, timer    *)
(* callback and render tick run to completion before another starts.       *)
(*                                                                         *)
(* Time is counted in render periods of 0.1 s (time.sleep(0.1)).           *)
(***************************************************************************)
EXTENDS Integers, Sequences, FiniteSets, TLC

(* ------------------------------------------------------------------ *)
(* Program constants                                                    *)
(* ------------------------------------------------------------------ *)

\* ssd1305(serial, width=128, height=32): self.device.width
DeviceWidth == 128

\* the 2.0 s of "current_time - self.scroll_start_time < 2.0", in 0.1 s units
ScrollDelay == 20

(* ------------------------------------------------------------------ *)
(* Bounds of the model                                                  *)
(* ------------------------------------------------------------------ *)

\* pixels per character reported by draw.textlength for the text font
CharWidth == 6

\* producer calls made in one behaviour of Spec
MaxCalls == 2

\* producer calls made in one behaviour of SeqSpec
SeqMaxCalls == 3

\* the longest duration (in 0.1 s units) a producer passes
MaxDuration == 1

\* the clock stops advancing at this time in Spec and SeqSpec
MaxTime == 2

\* the longest time.sleep(0.1) actually takes, in 0.1 s units (tick jitter)
MaxJitter == 2

\* the clock stops advancing at this time in ScrollSpec
MaxScrollTime == 200

\* the producer makes its calls no later than this time in ScrollSpec
MaxCallTime == 0

\* the longest line (in characters) passed to show_centered_text in RenderSpec
MaxLen == 24

\* the oldest motion time passed to show_status, in hours before the clock
MaxHours == 2

\* the clock stops advancing at this time in RenderSpec
MaxRenderTime == 2

\* producer calls made in one behaviour of RenderSpec and of StatusSpec
RenderMaxCalls == 1

\* the clock stops advancing at this time in OverlaySpec
MaxOverlayTime == 23

\* the duration (in 0.1 s units) of the timed message of OverlaySpec
OverlayDuration == 22

\* the largest backward adjustment of the system clock, in 0.1 s units
MaxSkew == 2

\* HDMIManager calls made in one behaviour of HdmiSpec
MaxHdmiCalls == 6

\* MQTT messages received in one behaviour of EventSpec
MaxEvents == 2

\* MQTT messages received in one behaviour of StickySpec
StickyMaxEvents == 4

\* volume adjustments and mute toggles in one behaviour of AudioSpec
MaxVolumeCalls == 3

\* messages on the third MQTT topic in one behaviour of AudioSpec
MaxMessages == 1

\* one minute ("delta.total_seconds() / 60") in 0.1 s units
TicksPerMinute == 600

(* ------------------------------------------------------------------ *)
(* Values                                                               *)
(* ------------------------------------------------------------------ *)

\* Python's None, and a value that is not None
None == <<>>
Some(v) == <<v>>
Val(o) == o[1]

\* the texts the producers show; the last one is wider than the display
Ready == "Ready"
NowPlaying == "Now playing: X"
MotionDetected == "Motion detected!"
AtTheDoor == "Someone's at the door!"


\* the two lines shown centered
Chime == <<"Chime", "Ding">>

\* Python truth of "if duration:"
Truthy(duration) == duration # None /\ Val(duration) # 0

\* draw.textlength(text, font=self.text_font)
textlength(text) == Len(text) * CharWidth

VARIABLES
    current_mode,        \* "default", "centered", "scrolling"
    current_message,
    line1,
    line2,
    scroll_position,
    scroll_start_time,   \* None or Some(time)
    scroll_paused,
    temporary_message,   \* None or Some([mode, message, line1, line2])
    temp_duration,
    temp_message_thread, \* None or Some(timer id)
    motion_active,
    last_motion_time,    \* None or Some(time)
    timers,              \* timer id -> [state, deadline, pc]
    call,                \* the producer thread: the call in progress
    ncalls,              \* producer calls begun
    loop_pc,             \* the render loop: "L251" (update_display) or "L252" (sleep)
    now,                 \* the clock: time.time(), in 0.1 s units
    phase,               \* history: the marquee phase the scroll cursor is in
    g_last,              \* history: the last producer call begun
    g_prev,              \* history: the producer call begun before it
    player,              \* HDMIManager: None or Some(url of the media played)
    is_display_on,       \* HDMIManager
    g_hdmi,              \* history: the last HDMIManager call
    pre_event_message,   \* None or Some([mode, message]) saved by an event message
    event,               \* the MQTT thread: the message being handled
    nevents,             \* MQTT messages received
    g_events,            \* history: the messages handled and what each left shown
    previous_message,    \* AudioManager
    volume_display_thread, \* AudioManager: None or Some(thread id)
    threads,             \* volume display thread id -> [state, pc, message]
    is_muted,            \* AudioManager
    current_volume,      \* AudioManager
    g_volume             \* history: the volume messages requested

display == <<current_mode, current_message, line1, line2>>
scroll == <<scroll_position, scroll_start_time, scroll_paused>>
motion == <<motion_active, last_motion_time>>
temp == <<temporary_message, temp_duration, temp_message_thread>>
history == <<g_last, g_prev>>
hdmi == <<player, is_display_on, g_hdmi>>
events == <<pre_event_message, event, nevents, g_events>>
audio == <<previous_message, volume_display_thread, threads, is_muted,
           current_volume, g_volume>>
peripherals == <<hdmi, events, audio>>

vars == <<current_mode, current_message, line1, line2, scroll_position,
          scroll_start_time, scroll_paused, temporary_message, temp_duration,
          temp_message_thread, motion_active, last_motion_time, timers, call,
          ncalls, loop_pc, now, phase, g_last, g_prev, player, is_display_on,
          g_hdmi, pre_event_message, event, nevents, g_events,
          previous_message, volume_display_thread, threads, is_muted,
          current_volume, g_volume>>

\* the four fields a temporary message saves and restores
Shown == [mode |-> current_mode, message |-> current_message,
          line1 |-> line1, line2 |-> line2]

TimerIds == 1..SeqMaxCalls

NoTimer == [state |-> "unborn", deadline |-> 0, pc |-> "-"]

Idle == [op |-> "idle", pc |-> "-", text |-> "", l1 |-> "", l2 |-> "",
         duration |-> None]

NoFrame == [kind |-> "none", a |-> "", b |-> "", x |-> 0]

\* history: no producer call yet
Blank == [mode |-> "default", message |-> "", line1 |-> "", line2 |-> ""]
NoCall == [op |-> "none", timed |-> FALSE, duration |-> None, before |-> Blank,
           after |-> Blank, overlaid |-> FALSE, timer |-> 0, at |-> 0,
           cursor |-> <<0, None, TRUE>>, done |-> FALSE]

(* ------------------------------------------------------------------ *)
(* HDMIManager.__init__, AudioManager.__init__, DoorbellSystem.__init__ *)
(* ------------------------------------------------------------------ *)

\* history: no HDMIManager call yet
NoHdmiCall == [op |-> "none", failed |-> FALSE, n |-> 0]

\* a JSON value of a payload's 'timestamp': its type and its text
Str(text) == [type |-> "str", text |-> text]
Num(text) == [type |-> "int", text |-> text]

\* a decoded MQTT payload: its Python type and, of a dict, the keys present
\* and their values
Object(keys, active, timestamp, video_url) ==
    [type |-> "dict", keys |-> keys, active |-> active,
     timestamp |-> timestamp, video_url |-> video_url]
NotObject == [type |-> "str", keys |-> {}, active |-> FALSE,
              timestamp |-> Str(""), video_url |-> ""]

\* the MQTT thread handles no message
NoEvent == [pc |-> "idle", topic |-> "", payload |-> NotObject,
            event_time |-> None, calls |-> <<>>, logged |-> FALSE,
            raised |-> None]

\* the volume display threads
ThreadIds == 1..MaxVolumeCalls
NoThread == [state |-> "unborn", pc |-> "-", message |-> "", slept |-> 0]

\* history: no volume message requested yet
NoVolume == [n |-> 0, base |-> None, wrote |-> FALSE]

\* self.mixer.getvolume()[0] when the manager is constructed
InitialVolume == 95

\* HDMIManager.__init__
HDMIManager_init ==
    /\ player = None
    /\ is_display_on = FALSE
    /\ g_hdmi = NoHdmiCall

\* AudioManager.__init__
AudioManager_init ==
    /\ volume_display_thread = None
    /\ previous_message = ""
    /\ current_volume = InitialVolume
    /\ is_muted = FALSE
    /\ threads = [t \in ThreadIds |-> NoThread]
    /\ g_volume = NoVolume

\* DoorbellSystem.__init__: no message has arrived, no event text is shown
DoorbellSystem_init ==
    /\ pre_event_message = None
    /\ event = NoEvent
    /\ nevents = 0
    /\ g_events = <<>>

(* ------------------------------------------------------------------ *)
(* OLEDManager.__init__                                                 *)
(* ------------------------------------------------------------------ *)

Init ==
    /\ current_mode = "default"
    /\ scroll_position = 0
    /\ scroll_start_time = None
    /\ scroll_paused = TRUE
    /\ current_message = ""
    /\ temporary_message = None
    /\ temp_duration = 0
    /\ temp_message_thread = None
    /\ last_motion_time = None
    /\ motion_active = FALSE
    /\ line1 = ""
    /\ line2 = ""
    /\ timers = [t \in TimerIds |-> NoTimer]
    /\ call = Idle
    /\ ncalls = 0
    /\ loop_pc = "L251"
    /\ now = 0
    /\ phase = "InitialDelay"
    /\ g_last = NoCall
    /\ g_prev = NoCall
    /\ HDMIManager_init
    /\ AudioManager_init
    /\ DoorbellSystem_init

(* ------------------------------------------------------------------ *)
(* The producer thread                                                  *)
(* ------------------------------------------------------------------ *)

Goto(label) == call' = [call EXCEPT !.pc = label]
Return == call' = Idle /\ g_last' = [g_last EXCEPT !.done = TRUE] /\ g_prev' = g_prev

\* history: a producer call begins; after is what the call alone writes
Begin(op, duration, after, limit) ==
    /\ call.op = "idle"
    /\ ncalls < limit
    /\ ncalls' = ncalls + 1
    /\ g_prev' = g_last
    /\ g_last' = [op |-> op, timed |-> Truthy(duration), duration |-> duration,
                  before |-> Shown, after |-> after,
                  overlaid |-> temporary_message # None, timer |-> 0, at |-> now,
                  cursor |-> scroll, done |-> FALSE]

\* threading.Thread.is_alive() of a Timer: started, and run() has not returned
is_alive(t) == timers[t].state \in {"waiting", "running"}

\* threading.Timer.cancel(): sets the finished event, which stops a timer that
\* is still waiting; a timer whose function already runs is not stopped
cancel(t) ==
    IF timers[t].state = "waiting"
    THEN [timers EXCEPT ![t].state = "cancelled"]
    ELSE timers

\* the state _set_temporary_message stores in temporary_message
Snapshot == Some(Shown)

\* show_centered_text(line1, line2, duration): the call and its first statement
show_centered_text_call(args, limit) ==
    \E arg \in args :
      LET pair == arg[1]
          duration == arg[2]
      IN
        /\ Begin("show_centered_text", duration,
                 [Shown EXCEPT !.mode = "centered", !.line1 = pair[1], !.line2 = pair[2]],
                 limit)
        /\ current_mode' = "centered"
        /\ call' = [op |-> "show_centered_text", pc |-> "L80", text |-> "",
                    l1 |-> pair[1], l2 |-> pair[2], duration |-> duration]
        /\ UNCHANGED <<current_message, line1, line2, scroll, temp, motion,
                       timers, loop_pc, now,  phase, peripherals>>

show_centered_text ==
    /\ call.op = "show_centered_text"
    /\ \/ /\ call.pc = "L80"
          /\ line1' = call.l1
          /\ Goto("L81")
          /\ UNCHANGED <<line2, history>>
       \/ /\ call.pc = "L81"
          /\ line2' = call.l2
          /\ Goto("L83")
          /\ UNCHANGED <<line1, history>>
       \/ /\ call.pc = "L83"
          /\ IF Truthy(call.duration)
             THEN Goto("L147") /\ UNCHANGED history
             ELSE Return
          /\ UNCHANGED <<line1, line2>>
    /\ UNCHANGED <<current_mode, current_message, scroll, temp, motion, timers,
                   ncalls, loop_pc, now,  phase, peripherals>>

\* show_scrolling_text(text, duration): the call and its first statement
show_scrolling_text_call(args, limit) ==
    \E arg \in args :
      LET text == arg[1]
          duration == arg[2]
      IN
        /\ Begin("show_scrolling_text", duration,
                 [Shown EXCEPT !.mode = "scrolling", !.message = text], limit)
        /\ current_mode' = "scrolling"
        /\ call' = [op |-> "show_scrolling_text", pc |-> "L94", text |-> text,
                    l1 |-> "", l2 |-> "", duration |-> duration]
        /\ UNCHANGED <<current_message, line1, line2, scroll, temp, motion,
                       timers, loop_pc, now,  phase, peripherals>>

show_scrolling_text ==
    /\ call.op = "show_scrolling_text"
    /\ \/ /\ call.pc = "L94"
          /\ current_message' = call.text
          /\ Goto("L95")
          /\ UNCHANGED <<scroll, phase, history>>
       \/ /\ call.pc = "L95"
          /\ scroll_position' = 0
          /\ Goto("L96")
          /\ UNCHANGED <<current_message, scroll_start_time, scroll_paused, phase, history>>
       \/ /\ call.pc = "L96"
          /\ scroll_start_time' = None
          /\ Goto("L97")
          /\ UNCHANGED <<current_message, scroll_position, scroll_paused, phase, history>>
       \/ /\ call.pc = "L97"
          /\ scroll_paused' = TRUE
          /\ phase' = "InitialDelay"
          /\ Goto("L99")
          /\ UNCHANGED <<current_message, scroll_position, scroll_start_time, history>>
       \/ /\ call.pc = "L99"
          /\ IF Truthy(call.duration)
             THEN Goto("L147") /\ UNCHANGED history
             ELSE Return
          /\ UNCHANGED <<current_message, scroll, phase>>
    /\ UNCHANGED <<current_mode, line1, line2, temp, motion, timers, ncalls,
                   loop_pc, now, peripherals>>

\* mutant of Cleared: clear_display forgets self.line2
ClearedKeepsLine2 ==
    [mode |-> "default", message |-> "", line1 |-> "", line2 |-> line2]

\* the values clear_display writes to the four display fields
Cleared == [mode |-> "default", message |-> "", line1 |-> "", line2 |-> ""]

\* clear_display(): the call and its first statement
clear_display_call(limit) ==
    /\ Begin("clear_display", None, Blank, limit)
    /\ current_mode' = Cleared.mode
    /\ call' = [Idle EXCEPT !.op = "clear_display", !.pc = "L119"]
    /\ UNCHANGED <<current_message, line1, line2, scroll, temp, motion, timers,
                   loop_pc, now,  phase, peripherals>>

clear_display ==
    /\ call.op = "clear_display"
    /\ \/ /\ call.pc = "L119"
          /\ current_message' = Cleared.message
          /\ Goto("L120")
          /\ UNCHANGED <<line1, line2>>
       \/ /\ call.pc = "L120"
          /\ line1' = Cleared.line1
          /\ Goto("L121")
          /\ UNCHANGED <<current_message, line2>>
       \/ /\ call.pc = "L121"
          /\ line2' = Cleared.line2
          /\ Goto("L147")
          /\ UNCHANGED <<current_message, line1>>
    /\ UNCHANGED <<current_mode, scroll, temp, motion, timers, ncalls, loop_pc,
                   now,  phase, history, peripherals>>

\* cleanup(): the call; its one statement calls _cancel_temporary_message
cleanup_call(limit) ==
    /\ Begin("cleanup", None, Shown, limit)
    /\ call' = [Idle EXCEPT !.op = "cleanup", !.pc = "L147"]
    /\ UNCHANGED <<display, scroll, temp, motion, timers, loop_pc, now,  phase, peripherals>>

\* _cancel_temporary_message(), called by clear_display, cleanup and
\* _set_temporary_message
_cancel_temporary_message ==
    /\ \/ /\ call.pc = "L147"
          /\ timers' = IF temp_message_thread # None /\ is_alive(Val(temp_message_thread))
                       THEN cancel(Val(temp_message_thread))
                       ELSE timers
          /\ Goto("L150")
          /\ UNCHANGED <<temporary_message, history>>
       \/ /\ call.pc = "L150"
          /\ temporary_message' = None
          /\ IF call.op \in {"show_centered_text", "show_scrolling_text"}
             THEN Goto("L132") /\ UNCHANGED history
             ELSE Return
          /\ UNCHANGED timers
    /\ UNCHANGED <<display, scroll, temp_duration, temp_message_thread, motion,
                   ncalls, loop_pc, now,  phase, peripherals>>

\* the id of the Timer object the next threading.Timer(...) creates
NewTimer == Cardinality({t \in TimerIds : timers[t].state # "unborn"}) + 1

\* _set_temporary_message(duration), after its call of _cancel_temporary_message
_set_temporary_message ==
    /\ \/ /\ call.pc = "L132"
          /\ temporary_message' = Snapshot
          /\ Goto("L138")
          /\ UNCHANGED <<temp_duration, temp_message_thread, timers, history>>
       \/ /\ call.pc = "L138"
          /\ temp_duration' = Val(call.duration)
          /\ Goto("L141")
          /\ UNCHANGED <<temporary_message, temp_message_thread, timers, history>>
       \/ /\ call.pc = "L141"
          /\ temp_message_thread' = Some(NewTimer)
          /\ timers' = [timers EXCEPT ![NewTimer] =
                            [state |-> "waiting", pc |-> "-",
                             deadline |-> now + Val(call.duration)]]
          /\ call' = Idle
          /\ g_last' = [g_last EXCEPT !.done = TRUE, !.timer = NewTimer]
          /\ g_prev' = g_prev
          /\ UNCHANGED <<temporary_message, temp_duration>>
    /\ UNCHANGED <<display, scroll, motion, ncalls, loop_pc, now,  phase, peripherals>>

(* ------------------------------------------------------------------ *)
(* The timer threads: threading.Timer(duration, _restore_previous_state) *)
(* ------------------------------------------------------------------ *)

\* Timer.run(): finished.wait(interval) timed out at or after the deadline
\* (the thread may be scheduled late) and finished was not set: the function
\* is called, and a cancel() from now on does not stop it
timer_run(t) ==
    /\ timers[t].state = "waiting"
    /\ now >= timers[t].deadline
    /\ timers' = [timers EXCEPT ![t].state = "running", ![t].pc = "L154"]
    /\ UNCHANGED <<display, scroll, temp, motion, call, ncalls, loop_pc, now,  phase, history, peripherals>>

TimerGoto(t, label) == timers' = [timers EXCEPT ![t].pc = label]
TimerDone(t) == timers' = [timers EXCEPT ![t].state = "done", ![t].pc = "-"]

\* self.temporary_message['key'] raises TypeError when temporary_message is
\* None: the exception ends the timer thread
TimerRaise(t) == timers' = [timers EXCEPT ![t].state = "raised", ![t].pc = "-"]

\* the guard of _restore_previous_state: "if self.temporary_message:"
RestoreGuard == temporary_message # None

\* _restore_previous_state(), run by timer t, statement by statement
_restore_previous_state(t) ==
    /\ timers[t].state = "running"
    /\ \/ /\ timers[t].pc = "L154"
          /\ IF RestoreGuard THEN TimerGoto(t, "L156") ELSE TimerDone(t)
          /\ UNCHANGED <<display, temporary_message>>
       \/ /\ timers[t].pc = "L156"
          /\ IF temporary_message = None
             THEN TimerRaise(t) /\ UNCHANGED current_mode
             ELSE current_mode' = Val(temporary_message).mode /\ TimerGoto(t, "L157")
          /\ UNCHANGED <<current_message, line1, line2, temporary_message>>
       \/ /\ timers[t].pc = "L157"
          /\ IF temporary_message = None
             THEN TimerRaise(t) /\ UNCHANGED current_message
             ELSE current_message' = Val(temporary_message).message /\ TimerGoto(t, "L158")
          /\ UNCHANGED <<current_mode, line1, line2, temporary_message>>
       \/ /\ timers[t].pc = "L158"
          /\ IF temporary_message = None
             THEN TimerRaise(t) /\ UNCHANGED line1
             ELSE line1' = Val(temporary_message).line1 /\ TimerGoto(t, "L159")
          /\ UNCHANGED <<current_mode, current_message, line2, temporary_message>>
       \/ /\ timers[t].pc = "L159"
          /\ IF temporary_message = None
             THEN TimerRaise(t) /\ UNCHANGED line2
             ELSE line2' = Val(temporary_message).line2 /\ TimerGoto(t, "L160")
          /\ UNCHANGED <<current_mode, current_message, line1, temporary_message>>
       \/ /\ timers[t].pc = "L160"
          /\ temporary_message' = None
          /\ TimerDone(t)
          /\ UNCHANGED display
    /\ UNCHANGED <<scroll, temp_duration, temp_message_thread, motion, call,
                   ncalls, loop_pc, now,  phase, history, peripherals>>

(* ------------------------------------------------------------------ *)
(* The render loop: DoorbellSystem.run                                  *)
(* ------------------------------------------------------------------ *)

\* mutant of Overflows: the marquee branch is taken whatever the width
OverflowsAlways(msg_width) == msg_width >= 0

\* the test that selects the marquee: "if msg_width > self.device.width"
Overflows(msg_width) == msg_width > DeviceWidth

\* mutant of ScrollForward: the marquee moves two pixels per tick
ScrollForwardTwo(position) == position + 2

\* one pixel per tick: "self.scroll_position += 1"
ScrollForward(position) == position + 1

\* the marquee branch of update_display for a message of width msg_width at
\* time current_time, from the cursor c; a cursor is
\* <<scroll_position, scroll_start_time, scroll_paused, phase>>
MarqueeOf(c, msg_width, current_time) ==
    LET start == IF c[2] = None THEN current_time ELSE Val(c[2])
    IN  IF current_time - start < ScrollDelay
        THEN <<c[1], Some(start), c[3], c[4]>>
        ELSE IF c[3] /\ current_time - start >= ScrollDelay
        THEN <<0, Some(start), FALSE, "Scrolling">>
        ELSE IF c[1] >= msg_width /\ ~c[3]
        THEN <<c[1], Some(current_time), TRUE, "EndPause">>
        ELSE IF ~c[3]
        THEN <<ScrollForward(c[1]), Some(start), c[3], c[4]>>
        ELSE <<c[1], Some(start), c[3], c[4]>>

\* the scroll cursor after the marquee branch of update_display, for a message
\* of width msg_width at time current_time:
\* <<scroll_position, scroll_start_time, scroll_paused, phase>>
Marquee(msg_width, current_time) ==
    MarqueeOf(<<scroll_position, scroll_start_time, scroll_paused, phase>>,
              msg_width, current_time)

\* _truncate_text(text, max_width, draw)
RECURSIVE TruncateLoop(_, _)
TruncateLoop(text, max_width) ==
    IF Len(text) > 3
       /\ textlength(SubSeq(text, 1, Len(text) - 3) \o "...") > max_width
    THEN TruncateLoop(SubSeq(text, 1, Len(text) - 4), max_width)
    ELSE text \o "..."

_truncate_text(text, max_width) ==
    IF textlength(text) <= max_width THEN text ELSE TruncateLoop(text, max_width)

\* what update_display draws below the status bar at time current_time when
\* the display fields are s: the two truncated lines, or the message and its
\* x position, or nothing
FrameOf(s, current_time) ==
    IF s.mode = "centered"
    THEN [kind |-> "centered",
          a |-> IF s.line1 # "" THEN _truncate_text(s.line1, DeviceWidth) ELSE "",
          b |-> IF s.line2 # "" THEN _truncate_text(s.line2, DeviceWidth) ELSE "",
          x |-> 0]
    ELSE IF s.mode = "scrolling" /\ s.message # ""
    THEN [kind |-> "scrolling", a |-> s.message, b |-> "",
          x |-> IF Overflows(textlength(s.message))
                THEN DeviceWidth - Marquee(textlength(s.message), current_time)[1]
                ELSE (DeviceWidth - textlength(s.message)) \div 2]
    ELSE NoFrame

Frame(current_time) == FrameOf(Shown, current_time)

\* mutant of update_display: the tick first resolves the temporary message
\* (writes the snapshot back and drops it) and then draws
update_display_resolves ==
    /\ loop_pc = "L251"
    /\ loop_pc' = "L252"
    /\ IF temporary_message # None
       THEN /\ current_mode' = Val(temporary_message).mode
            /\ current_message' = Val(temporary_message).message
            /\ line1' = Val(temporary_message).line1
            /\ line2' = Val(temporary_message).line2
            /\ temporary_message' = None
       ELSE UNCHANGED <<display, temporary_message>>
    /\ UNCHANGED <<scroll, phase, temp_duration, temp_message_thread, motion,
                   timers, call, ncalls, now, history, peripherals>>

\* update_display(): one render tick; it draws Frame(now) and, for a message
\* wider than the display, moves the scroll cursor
update_display ==
    /\ loop_pc = "L251"
    /\ loop_pc' = "L252"
    /\ IF /\ current_mode = "scrolling"
          /\ current_message # ""
          /\ Overflows(textlength(current_message))
       THEN LET m == Marquee(textlength(current_message), now)
            IN  /\ scroll_position' = m[1]
                /\ scroll_start_time' = m[2]
                /\ scroll_paused' = m[3]
                /\ phase' = m[4]
       ELSE UNCHANGED <<scroll, phase>>
    /\ UNCHANGED <<display, temp, motion, timers, call, ncalls, now, history, peripherals>>

\* time.sleep(0.1): the clock advances by the period, or more under jitter
sleep(limit, jitter) ==
    /\ loop_pc = "L252"
    /\ loop_pc' = "L251"
    /\ \E dt \in 1..jitter :
          /\ now + dt <= limit
          /\ now' = now + dt
    /\ UNCHANGED <<display, scroll, temp, motion, timers, call, ncalls, 
                   phase, history, peripherals>>

(* ------------------------------------------------------------------ *)
(* Specifications                                                       *)
(* ------------------------------------------------------------------ *)

Running == \E t \in TimerIds : timers[t].state = "running"
Calling == call.op # "idle"

\* what the producers pass: a baseline without a duration, a track title
\* for a while, a selection with or without a duration
ScrollingArgs == {<<Ready, None>>, <<NowPlaying, Some(MaxDuration)>>}
CenteredArgs == {<<Chime, None>>, <<Chime, Some(MaxDuration)>>}

ShowCenteredCall == show_centered_text_call(CenteredArgs, MaxCalls)
ShowScrollingCall == show_scrolling_text_call(ScrollingArgs, MaxCalls)
ClearDisplayCall == clear_display_call(MaxCalls)
CleanupCall == cleanup_call(MaxCalls)
ShowCentered == show_centered_text
ShowScrolling == show_scrolling_text
ClearDisplay == clear_display
CancelTemporaryMessage == _cancel_temporary_message
SetTemporaryMessage == _set_temporary_message
TimerRun == \E t \in TimerIds : timer_run(t)
RestorePreviousState == \E t \in TimerIds : _restore_previous_state(t)
UpdateDisplay == update_display
Sleep == sleep(MaxTime, 1)

\* the threads interleave statement by statement
Next ==
    \/ ShowCenteredCall
    \/ ShowScrollingCall
    \/ ClearDisplayCall
    \/ CleanupCall
    \/ ShowCentered
    \/ ShowScrolling
    \/ ClearDisplay
    \/ CancelTemporaryMessage
    \/ SetTemporaryMessage
    \/ TimerRun
    \/ RestorePreviousState
    \/ UpdateDisplay
    \/ Sleep

Spec == Init /\ [][Next]_vars

\* every method, timer callback and render tick runs to completion before
\* another thread takes a step
Quiet == ~Calling /\ ~Running

\* SeqSpec also passes an event message that stays, with None or 0
SeqScrollingArgs ==
    ScrollingArgs \cup {<<MotionDetected, None>>, <<MotionDetected, Some(0)>>}

SeqShowCenteredCall ==
    Quiet /\ show_centered_text_call(CenteredArgs, SeqMaxCalls)
SeqShowScrollingCall ==
    Quiet /\ show_scrolling_text_call(SeqScrollingArgs, SeqMaxCalls)
SeqClearDisplayCall == Quiet /\ clear_display_call(SeqMaxCalls)
SeqCleanupCall == Quiet /\ cleanup_call(SeqMaxCalls)
SeqTimerRun == Quiet /\ TimerRun
SeqUpdateDisplay == Quiet /\ update_display
SeqSleep == Quiet /\ sleep(MaxTime, 1)

SeqNext ==
    \/ SeqShowCenteredCall
    \/ SeqShowScrollingCall
    \/ SeqClearDisplayCall
    \/ SeqCleanupCall
    \/ ShowCentered
    \/ ShowScrolling
    \/ ClearDisplay
    \/ CancelTemporaryMessage
    \/ SetTemporaryMessage
    \/ SeqTimerRun
    \/ RestorePreviousState
    \/ SeqUpdateDisplay
    \/ SeqSleep

SeqSpec == Init /\ [][SeqNext]_vars

\* the marquee: the producer sets the text early, then the render loop runs
\* on a clock with jitter
MarqueeArgs == {<<AtTheDoor, None>>, <<Ready, None>>}

MarqueeShowScrollingCall ==
    /\ Quiet
    /\ now <= MaxCallTime
    /\ show_scrolling_text_call(MarqueeArgs, MaxCalls)
MarqueeUpdateDisplay == Quiet /\ update_display
MarqueeSleep == Quiet /\ sleep(MaxScrollTime, MaxJitter)

ScrollNext ==
    \/ MarqueeShowScrollingCall
    \/ ShowScrolling
    \/ MarqueeUpdateDisplay
    \/ MarqueeSleep

ScrollSpec == Init /\ [][ScrollNext]_vars

(* ------------------------------------------------------------------ *)
(* The status bar, long lines, clock adjustments and driver failures    *)
(* ------------------------------------------------------------------ *)

\* the first n characters of the motion event's message
EventText == "Motion detected on doorbell camera!"
Text(n) == SubSeq(EventText, 1, n)

\* Python's int(x / y) for integers x and y > 0: truncation toward zero
IntDiv(x, y) == IF x >= 0 THEN x \div y ELSE -((-x) \div y)

\* _format_motion_time() when datetime.now() reads current_time
_format_motion_time(current_time) ==
    IF motion_active THEN "now"
    ELSE IF last_motion_time = None THEN "??"
    ELSE LET delta == current_time - Val(last_motion_time)
             minutes == IntDiv(delta, TicksPerMinute)
             hours == minutes \div 60
         IN  IF minutes < 60 THEN ToString(minutes) \o "m"
             ELSE ToString(hours) \o "h"

\* mutant of show_status: the fields are assigned whatever the arguments are
show_status_overwrites(args) ==
    /\ call.op = "idle"
    /\ \E arg \in args :
          /\ motion_active' = IF arg[1] # None THEN Val(arg[1]) ELSE FALSE
          /\ last_motion_time' = arg[2]
    /\ UNCHANGED <<display, scroll, temp, timers, call, ncalls, loop_pc, now,
                   phase, history, peripherals>>

\* show_status(motion_active, motion_time): both arguments None or a value
show_status(args) ==
    /\ call.op = "idle"
    /\ \E arg \in args :
          /\ motion_active' = IF arg[1] # None THEN Val(arg[1]) ELSE motion_active
          /\ last_motion_time' = IF arg[2] # None THEN arg[2] ELSE last_motion_time
    /\ UNCHANGED <<display, scroll, temp, timers, call, ncalls, loop_pc, now,
                   phase, history, peripherals>>

\* the system clock is set back (time.time() and datetime.now() follow it)
clock_adjust(skew) ==
    /\ \E dt \in 1..skew :
          /\ now - dt >= 0
          /\ now' = now - dt
    /\ UNCHANGED <<display, scroll, temp, motion, timers, call, ncalls, loop_pc,
                   phase, history, peripherals>>

\* the except clause of DoorbellSystem.run: "except KeyboardInterrupt"
RunCatches(exc) == exc = "KeyboardInterrupt"

\* update_display() raises exc: before the marquee branch has run (canvas,
\* textlength, the status bar) or at the draw.text that follows it; run()
\* goes to its handler when it has one for exc, and otherwise the exception
\* leaves run()
update_display_raises(excs) ==
    /\ loop_pc = "L251"
    /\ \E exc \in excs :
          loop_pc' = IF RunCatches(exc) THEN "L254" ELSE "raised"
    /\ \/ UNCHANGED <<scroll, phase>>
       \/ /\ current_mode = "scrolling"
          /\ current_message # ""
          /\ Overflows(textlength(current_message))
          /\ LET m == Marquee(textlength(current_message), now)
             IN  /\ scroll_position' = m[1]
                 /\ scroll_start_time' = m[2]
                 /\ scroll_paused' = m[3]
                 /\ phase' = m[4]
    /\ UNCHANGED <<display, temp, motion, timers, call, ncalls, now, history, peripherals>>

\* DoorbellSystem.cleanup(), called by the handler of run(): its last call is
\* OLEDManager.cleanup(), which is _cancel_temporary_message()
run_cleanup ==
    /\ loop_pc = "L254"
    /\ loop_pc' = "exited"
    /\ timers' = IF temp_message_thread # None /\ is_alive(Val(temp_message_thread))
                 THEN cancel(Val(temp_message_thread))
                 ELSE timers
    /\ temporary_message' = None
    /\ UNCHANGED <<display, scroll, temp_duration, temp_message_thread, motion,
                   call, ncalls, now, phase, history, peripherals>>

\* what RenderSpec and StatusSpec pass: lines of every length up to MaxLen, a
\* message wider than the display, motion reports from MaxHours before the clock's start
\* to one minute after it
LongLineArgs == {<<<<Text(n), "">>, None>> : n \in 0..MaxLen}
WideArgs == {<<AtTheDoor, None>>}
MotionAges == {-1, 0, 59} \cup {60 * h + 1 : h \in 1..MaxHours}
MotionTimes == {0 - m * TicksPerMinute : m \in MotionAges}
MotionArgs ==
    {<<a, t>> : a \in {None, Some(TRUE), Some(FALSE)},
                t \in {None} \cup {Some(mt) : mt \in MotionTimes}}
Exceptions == {"KeyboardInterrupt", "OSError"}

RenderShowCenteredCall ==
    Quiet /\ show_centered_text_call(LongLineArgs, RenderMaxCalls)
RenderShowScrollingCall ==
    Quiet /\ show_scrolling_text_call(WideArgs, RenderMaxCalls)
RenderUpdateDisplay == Quiet /\ update_display
RenderSleep == Quiet /\ sleep(MaxRenderTime, 1)
UpdateDisplayRaises == Quiet /\ update_display_raises(Exceptions)
RunCleanup == run_cleanup

\* the render loop over long centered lines and a wide message, with a
\* driver that may fail
RenderNext ==
    \/ RenderShowCenteredCall
    \/ RenderShowScrollingCall
    \/ ShowCentered
    \/ ShowScrolling
    \/ RenderUpdateDisplay
    \/ RenderSleep
    \/ UpdateDisplayRaises
    \/ RunCleanup

RenderSpec == Init /\ [][RenderNext]_vars

StatusScrollingArgs == WideArgs \cup {<<AtTheDoor, Some(MaxDuration)>>}
StatusShowScrollingCall ==
    Quiet /\ show_scrolling_text_call(StatusScrollingArgs, RenderMaxCalls)
StatusTimerRun == Quiet /\ TimerRun
ShowStatus == show_status(MotionArgs)
StatusUpdateDisplay == Quiet /\ update_display
StatusSleep == Quiet /\ sleep(MaxRenderTime, 1)
ClockAdjust == Quiet /\ clock_adjust(MaxSkew)

\* the render loop with motion reports, on a clock that may be set back
StatusNext ==
    \/ StatusShowScrollingCall
    \/ ShowScrolling
    \/ CancelTemporaryMessage
    \/ SetTemporaryMessage
    \/ StatusTimerRun
    \/ RestorePreviousState
    \/ ShowStatus
    \/ StatusUpdateDisplay
    \/ StatusSleep
    \/ ClockAdjust

StatusSpec == Init /\ [][StatusNext]_vars

\* a wide message shown for a while or until replaced, and the selection
\* lines, at any time while the marquee runs
OverlayScrollingArgs == {<<AtTheDoor, Some(OverlayDuration)>>, <<AtTheDoor, None>>}
OverlayCenteredArgs == {<<Chime, None>>}

OverlayShowScrollingCall ==
    Quiet /\ show_scrolling_text_call(OverlayScrollingArgs, MaxCalls)
OverlayShowCenteredCall ==
    Quiet /\ show_centered_text_call(OverlayCenteredArgs, MaxCalls)
OverlayTimerRun == Quiet /\ TimerRun
OverlayUpdateDisplay == Quiet /\ update_display
OverlaySleep == Quiet /\ sleep(MaxOverlayTime, 1)

\* SeqSpec over a time long enough for the marquee to move
OverlayNext ==
    \/ OverlayShowScrollingCall
    \/ OverlayShowCenteredCall
    \/ ShowCentered
    \/ ShowScrolling
    \/ CancelTemporaryMessage
    \/ SetTemporaryMessage
    \/ OverlayTimerRun
    \/ RestorePreviousState
    \/ OverlayUpdateDisplay
    \/ OverlaySleep

OverlaySpec == Init /\ [][OverlayNext]_vars

(* ------------------------------------------------------------------ *)
(* Claims                                                               *)
(* ------------------------------------------------------------------ *)

\* the last producer call has returned and nothing else is in progress
Settled == g_last.done /\ Quiet

\* a step of the render loop that is one update_display
RenderTick == loop_pc = "L251" /\ loop_pc' = "L252"

ShowOps == {"show_centered_text", "show_scrolling_text"}

\* C1: after a timed show_scrolling_text or show_centered_text made while the
\* display holds a baseline B (no temporary message active), the display
\* shows the new content while the expiry timer waits, and once the timer's
\* callback has run the four display fields equal B again.
C1_RestoresBaseline ==
    (g_last.timed /\ ~g_last.overlaid /\ Settled)
        => /\ timers[g_last.timer].state = "waiting" => Shown = g_last.after
           /\ timers[g_last.timer].state = "done" => Shown = g_last.before

\* C2: once a second timed overlay is being installed before the first one's
\* deadline, no step of the first timer's callback changes the display
\* fields or temporary_message.
C2_StaleTimerInert ==
    [][(/\ g_prev.timed /\ g_prev.timer # 0
        /\ g_last.timed
        /\ g_last.at < timers[g_prev.timer].deadline
        /\ timers[g_prev.timer].state = "running"
        /\ timers'[g_prev.timer] # timers[g_prev.timer])
       => UNCHANGED <<display, temporary_message>>]_vars

\* C3: when a second timed overlay replaces a first one that is still active,
\* the display after the second one's expiry is the baseline shown before
\* the first overlay was installed.
C3_NoChaining ==
    (/\ g_prev.timed /\ ~g_prev.overlaid
     /\ g_last.timed /\ g_last.overlaid
     /\ Settled
     /\ timers[g_last.timer].state = "done")
        => Shown = g_prev.before

\* C4: with the baseline "Ready" displayed, installing "Motion detected!"
\* without a duration and then clearing it leaves "Ready" displayed in its
\* original mode.
C4_ClearRestoresBaseline ==
    (/\ g_prev.op = "show_scrolling_text" /\ ~g_prev.timed /\ ~g_prev.overlaid
     /\ g_prev.before = [mode |-> "scrolling", message |-> Ready,
                         line1 |-> "", line2 |-> ""]
     /\ g_prev.after.message = MotionDetected
     /\ g_last.op = "clear_display"
     /\ Settled)
        => Shown = g_prev.before

\* C5: a show call with duration None or 0 schedules no timer, and its content
\* stays displayed until the producer makes another call.
C5_StickyStays ==
    (g_last.op \in ShowOps /\ ~g_last.timed /\ Settled)
        => /\ g_last.timer = 0
           /\ Shown = g_last.after

C7_BaselineUnderOverlay ==
    [][(/\ RenderTick
        /\ g_prev.timed /\ g_prev.timer # 0
        /\ timers[g_prev.timer].state = "waiting"
        /\ g_last.op \in ShowOps /\ ~g_last.timed
        /\ Settled)
       => Frame(now) = FrameOf(g_prev.after, now)]_vars

\* C8: a render tick after a timed overlay's deadline does not draw the
\* overlay's content, also when the timer's callback has not run yet.
C8_NoStaleFrame ==
    [][(/\ RenderTick
        /\ g_last.timed /\ Settled
        /\ timers[g_last.timer].state = "waiting"
        /\ now > timers[g_last.timer].deadline
        /\ FrameOf(g_last.before, now) # FrameOf(g_last.after, now))
       => Frame(now) # FrameOf(g_last.after, now)]_vars

\* C9: a render tick that runs while one producer call is in progress, no
\* timer ever having been started, sees the display fields either as they
\* were before the call or as the call leaves them.
C9_Serialized ==
    [][(/\ RenderTick
        /\ Calling
        /\ \A t \in TimerIds : timers[t].state = "unborn")
       => Shown \in {g_last.before, g_last.after}]_vars

\* a message wider than the display is being scrolled
Wide ==
    /\ current_mode = "scrolling"
    /\ current_message # ""
    /\ textlength(current_message) > DeviceWidth

\* C10: for a text wider than the display, on every render tick of the
\* Scrolling phase the offset does not decrease, and it grows by exactly one
\* pixel until it has reached the text's width; in the InitialDelay phase
\* the offset is 0.
C10_Marquee ==
    /\ []((Wide /\ phase = "InitialDelay") => scroll_position = 0)
    /\ [][(RenderTick /\ Wide /\ ~Calling)
          => /\ phase = "Scrolling" => scroll_position' >= scroll_position
             /\ (phase = "Scrolling" /\ scroll_position < textlength(current_message))
                   => (scroll_position' = scroll_position + 1 /\ phase' = "Scrolling")
             /\ (phase = "Scrolling" /\ scroll_position >= textlength(current_message))
                   => (scroll_position' = scroll_position /\ phase' = "EndPause")
             /\ phase' = "InitialDelay" => scroll_position' = 0]_vars

\* C10 witness: the marquee has scrolled the whole text and pauses at the end.
C10_Witness ==
    /\ Wide
    /\ phase = "EndPause"
    /\ scroll_position >= textlength(current_message)

\* C11: every marquee cycle begins with the initial delay: when the end
\* pause of a cycle is over, the cursor goes back to offset 0 in the
\* InitialDelay phase (and stays there for ScrollDelay) before it scrolls again.
C11_CycleShape ==
    [][(RenderTick /\ Wide /\ ~Calling /\ phase = "EndPause" /\ phase' # "EndPause")
       => (phase' = "InitialDelay" /\ scroll_position' = 0)]_vars

\* C12: a line wider than max_width (the display's width) is drawn as a
\* string that fits in max_width, ellipsis included, and that is a strict
\* prefix of the line followed by "...".
C12_TruncatedFits ==
    (current_mode = "centered" /\ ~Calling /\ textlength(line1) > DeviceWidth)
        => LET drawn == _truncate_text(line1, DeviceWidth)
               stem == SubSeq(drawn, 1, Len(drawn) - 3)
           IN  /\ textlength(drawn) <= DeviceWidth
               /\ Len(drawn) >= 3
               /\ SubSeq(drawn, Len(drawn) - 2, Len(drawn)) = "..."
               /\ Len(stem) < Len(line1)
               /\ stem = SubSeq(line1, 1, Len(stem))

\* C13: the motion text is "now" while motion_active, else "??" when no motion
\* time was recorded, else (for a motion time not after the clock) "<n>m" for
\* n < 60 whole minutes elapsed and "<h>h <m>m" from 60 minutes on.
C13_MotionText ==
    (last_motion_time # None => now >= Val(last_motion_time))
        => _format_motion_time(now) =
              IF motion_active THEN "now"
              ELSE IF last_motion_time = None THEN "??"
              ELSE LET elapsed == (now - Val(last_motion_time)) \div TicksPerMinute
                   IN  IF elapsed < 60 THEN ToString(elapsed) \o "m"
                       ELSE ToString(elapsed \div 60) \o "h "
                                \o ToString(elapsed % 60) \o "m"

\* C19: an exception raised by the driver inside update_display does not end
\* the render loop, and the failing tick leaves the scroll cursor as it was.
C19_LoopSurvives ==
    /\ [](loop_pc # "raised")
    /\ [][(loop_pc = "L251" /\ loop_pc' = "raised") => UNCHANGED scroll]_vars

\* C20: when the clock reads earlier than last_motion_time the motion text is
\* "0m", and a render tick made when the clock reads earlier than
\* scroll_start_time leaves the marquee in its phase, the offset unchanged.
C20_ClampedElapsed ==
    /\ []((~motion_active /\ last_motion_time # None /\ now < Val(last_motion_time))
            => _format_motion_time(now) = "0m")
    /\ [][(/\ RenderTick /\ Wide /\ ~Calling
           /\ scroll_start_time # None /\ now < Val(scroll_start_time))
          => (phase' = phase /\ scroll_position' = scroll_position)]_vars

\* the scroll cursor at the start of the initial delay
CursorAtStart == <<0, None, TRUE>>

\* C14: when show_scrolling_text returns, and when a timer's callback has
\* restored a scrolling state whose mode or text differs from what the display
\* showed before it, the scroll cursor is at offset 0 at the start of the
\* initial delay.
C14_CursorReset ==
    /\ [][(call.op = "show_scrolling_text" /\ call.pc = "L99" /\ call' # call)
          => (scroll = CursorAtStart /\ phase = "InitialDelay")]_vars
    /\ [][\A t \in TimerIds :
            (/\ timers[t].state = "running" /\ timers[t].pc = "L160"
             /\ timers'[t].state = "done"
             /\ Settled'
             /\ current_mode = "scrolling"
             /\ \/ g_last.after.mode # "scrolling"
                \/ g_last.after.message # current_message)
            => (scroll' = CursorAtStart /\ phase' = "InitialDelay")]_vars

\* C15: show_scrolling_text called with the text that is already being
\* scrolled leaves scroll_position, scroll_start_time and scroll_paused as
\* they were before the call.
C15_SameTextKeepsCursor ==
    (/\ call.op = "show_scrolling_text" /\ call.pc = "L99"
     /\ g_last.before.mode = "scrolling"
     /\ g_last.before.message = call.text)
        => scroll = g_last.cursor

\* the display fields s after the writes of the show call recorded in g
Written(s, g) ==
    IF g.op = "show_scrolling_text"
    THEN [s EXCEPT !.mode = "scrolling", !.message = g.after.message]
    ELSE [s EXCEPT !.mode = "centered", !.line1 = g.after.line1,
                   !.line2 = g.after.line2]

\* C17: a show call without a duration made while a timed overlay is active,
\* followed by the overlay's expiry, leaves the display as the expiry followed
\* by the same call does, that is with the call's writes in place; and no
\* step of a timer whose overlay was replaced by a later timed overlay
\* changes the display.
C17_ExpiryCommutes ==
    /\ []((/\ g_prev.timed /\ g_prev.timer # 0
           /\ g_last.op \in ShowOps /\ ~g_last.timed /\ g_last.overlaid
           /\ Settled
           /\ timers[g_prev.timer].state = "done")
          => Shown = Written(Shown, g_last))
    /\ [][\A t \in TimerIds :
            (/\ g_last.timed /\ g_last.done /\ t # g_last.timer
             /\ timers'[t] # timers[t])
            => UNCHANGED <<display, temporary_message>>]_vars

\* a message no wider than the display is shown in scrolling mode
Narrow ==
    /\ current_mode = "scrolling"
    /\ current_message # ""
    /\ textlength(current_message) <= DeviceWidth

\* C16: a render tick in scrolling mode whose text is no wider than the
\* display draws the text at the centered position and leaves
\* scroll_position, scroll_start_time and scroll_paused unchanged.
C16_NarrowStatic ==
    [][(RenderTick /\ Narrow)
       => /\ UNCHANGED <<scroll, phase>>
          /\ Frame(now) = [kind |-> "scrolling", a |-> current_message, b |-> "",
                           x |-> (DeviceWidth - textlength(current_message)) \div 2]]_vars

\* C16 witness: a render tick has run on a narrow message after the call
\* that set it, and the cursor is still where the call left it.
C16_Witness ==
    /\ Narrow
    /\ Settled
    /\ loop_pc = "L252"
    /\ now > g_last.at
    /\ scroll = CursorAtStart

\* the cursor after render ticks made every 0.1 s from current_time to last,
\* from the cursor c
RECURSIVE RegularTicks(_, _, _, _)
RegularTicks(c, msg_width, current_time, last) ==
    IF current_time > last THEN c
    ELSE RegularTicks(MarqueeOf(c, msg_width, current_time), msg_width,
                      current_time + 1, last)

\* C18: in the first cycle of a wide message, after a render tick at time now
\* the offset and the phase are those of the run whose ticks were made every
\* 0.1 s since the same first tick, however many ticks this run has made.
C18_ClockDriven ==
    (/\ Wide /\ Settled
     /\ loop_pc = "L252"
     /\ scroll_start_time # None
     /\ now - g_last.at < ScrollDelay + textlength(current_message))
        => LET regular == RegularTicks(<<0, None, TRUE, "InitialDelay">>,
                                       textlength(current_message),
                                       Val(scroll_start_time), now)
           IN  /\ scroll_position = regular[1]
               /\ phase = regular[4]

\* C22: once clear_display() or cleanup() has returned, temporary_message is
\* None and no timer changes the four display fields; once clear_display()
\* has returned the display is blank, until the next producer call.
C22_ClearedStays ==
    /\ []((g_last.op \in {"clear_display", "cleanup"} /\ g_last.done)
            => temporary_message = None)
    /\ []((g_last.op = "clear_display" /\ g_last.done) => Shown = Blank)
    /\ [][(g_last.op \in {"clear_display", "cleanup"} /\ g_last.done /\ g_last'.done)
          => UNCHANGED display]_vars

\* C23: a render tick leaves the four display fields, the temporary message
\* and the motion fields unchanged, and current_mode changes only in a step
\* of a producer call or of a timer's callback.
C23_TickShowsOnly ==
    /\ [][RenderTick => UNCHANGED <<display, temp, motion>>]_vars
    /\ [][current_mode' # current_mode => (call' # call \/ timers' # timers)]_vars

\* C23 witness: a render tick has run after a timed message was installed,
\* its snapshot still stored.
C23_Witness ==
    /\ loop_pc = "L252"
    /\ Settled
    /\ g_last.timed
    /\ now > g_last.at
    /\ temporary_message # None
    /\ Shown = g_last.after

\* the timers that are scheduled and have neither been cancelled nor fired
Pending == {t \in TimerIds : timers[t].state = "waiting"}

\* the timers whose callback is running
Firing == {t \in TimerIds : timers[t].state = "running"}

\* C25: at most one timer is pending, and whenever temporary_message holds a
\* snapshot while no producer call is in progress, exactly one timer is
\* pending or firing.
C25_OneTimer ==
    /\ Cardinality(Pending) <= 1
    /\ (~Calling /\ temporary_message # None)
          => Cardinality(Pending \cup Firing) = 1

\* C26: no timer thread ends with an exception: _restore_previous_state never
\* subscripts temporary_message after it was set to None.
C26_NoTimerFailure ==
    \A t \in TimerIds : timers[t].state # "raised"

Hdmi == [player |-> player, is_display_on |-> is_display_on]

\* the streams played: config['video']['default_stream'] and a camera's
DefaultStream == "rtsp://default"
CameraStream == "rtsp://camera"

\* turn_on_display(); ok: vcgencmd.display_power(1) does not raise
turn_on_display(h, ok) ==
    IF ~h.is_display_on /\ ok THEN [h EXCEPT !.is_display_on = TRUE] ELSE h

\* stop_video()
stop_video(h) ==
    IF h.player # None THEN [h EXCEPT !.player = None] ELSE h

\* turn_off_display(): whether display_power(0) raises makes no difference
\* to the fields, its exception is caught before is_display_on is written
turn_off_display(h) ==
    IF h.is_display_on
    THEN [(IF h.player # None THEN stop_video(h) ELSE h)
            EXCEPT !.is_display_on = FALSE]
    ELSE h

\* play_video(url); ok: the display_power(1) of its turn_on_display() does
\* not raise
play_video(h, url, ok) ==
    [turn_on_display(h, ok) EXCEPT !.player = Some(url)]

\* the manager's fields become those of h
HdmiBecomes(h) ==
    /\ player' = h.player
    /\ is_display_on' = h.is_display_on

\* history: a call of the manager from outside; failed: it issued a
\* display-power command that raised
HdmiCall(op, failed) ==
    /\ g_hdmi.n < MaxHdmiCalls
    /\ g_hdmi' = [op |-> op, failed |-> failed, n |-> g_hdmi.n + 1]
    /\ UNCHANGED <<display, scroll, temp, motion, timers, call, ncalls,
                   loop_pc, now, phase, history, events, audio>>

HdmiTurnOnDisplay ==
    \E ok \in BOOLEAN :
        /\ HdmiCall("turn_on_display", ~is_display_on /\ ~ok)
        /\ HdmiBecomes(turn_on_display(Hdmi, ok))

HdmiTurnOffDisplay ==
    \E ok \in BOOLEAN :
        /\ HdmiCall("turn_off_display", is_display_on /\ ~ok)
        /\ HdmiBecomes(turn_off_display(Hdmi))

HdmiPlayVideo ==
    \E ok \in BOOLEAN, url \in {DefaultStream, CameraStream} :
        /\ HdmiCall("play_video", ~is_display_on /\ ~ok)
        /\ HdmiBecomes(play_video(Hdmi, url, ok))

HdmiStopVideo ==
    /\ HdmiCall("stop_video", FALSE)
    /\ HdmiBecomes(stop_video(Hdmi))

\* DoorbellSystem.toggle_display()
toggle_display ==
    \E ok1 \in BOOLEAN, ok2 \in BOOLEAN :
        /\ HdmiCall("toggle_display",
                    \/ is_display_on /\ ~ok1
                    \/ ~is_display_on /\ (~ok1 \/ ~ok2))
        /\ HdmiBecomes(IF is_display_on
                       THEN turn_off_display(Hdmi)
                       ELSE play_video(turn_on_display(Hdmi, ok1),
                                       DefaultStream, ok2))

\* any sequence of calls of the manager
HdmiNext ==
    \/ HdmiTurnOnDisplay
    \/ HdmiTurnOffDisplay
    \/ HdmiPlayVideo
    \/ HdmiStopVideo
    \/ toggle_display

HdmiSpec == Init /\ [][HdmiNext]_vars

\* C29: a video player exists only while is_display_on is true, and after
\* turn_off_display the player is None and is_display_on is false, also
\* when a display-power command has failed
C29_PlayerOnlyWhileOn ==
    /\ player # None => is_display_on
    /\ g_hdmi.op = "turn_off_display" => player = None /\ ~is_display_on

(* ------------------------------------------------------------------ *)
(* DoorbellSystem: the MQTT messages                                    *)
(* ------------------------------------------------------------------ *)

\* config['mqtt']['topics']['motion'] and ['doorbell']
MotionTopic == "doorbell/motion"
DoorbellTopic == "doorbell/ring"

\* the text of a motion event; a doorbell event shows AtTheDoor
MotionOnCamera == "Motion detected on doorbell camera!"

\* the timestamps datetime.fromisoformat parses, and the time each one is,
\* in 0.1 s units
IsoTime ==
    ("2024-05-01T12:00:00" :> 0) @@ ("2024-05-01T11:59:00" :> (0 - TicksPerMinute))

\* datetime.fromisoformat(ts): TypeError for an argument that is not a
\* str, ValueError for a str that is not an ISO date
fromisoformat(ts) ==
    IF ts.type # "str" THEN [raises |-> "TypeError", value |-> 0]
    ELSE IF ts.text \notin DOMAIN IsoTime
         THEN [raises |-> "ValueError", value |-> 0]
         ELSE [raises |-> "", value |-> IsoTime[ts.text]]

\* mutant of RequiredFields: 'video_url' is not checked
RequiredFieldsTwo == {"active", "timestamp"}

\* the keys handle_event_message requires
RequiredFields == {"active", "timestamp", "video_url"}

\* lines 157-168: the exception the validation raises, "" when it passes
Validation(payload) ==
    IF payload.type # "dict" THEN "ValueError"
    ELSE IF ~(RequiredFields \subseteq payload.keys) THEN "ValueError"
    ELSE IF "timestamp" \notin payload.keys THEN "KeyError"
    ELSE IF fromisoformat(payload.timestamp).raises # "" THEN "ValueError"
    ELSE ""

\* "except (ValueError, TypeError)" of handle_event_message
Catches(exc) == exc \in {"ValueError", "TypeError"}

\* the scroll cursor is reset
ResetCursor ==
    /\ scroll_position' = 0
    /\ scroll_start_time' = None
    /\ scroll_paused' = TRUE
    /\ phase' = "InitialDelay"

\* what an event message replaces and restores
baseline == <<current_mode, current_message, scroll, phase, pre_event_message>>

\* OLEDManager.message: the message that is not an event text
message ==
    IF pre_event_message # None THEN Val(pre_event_message).message
    ELSE current_message

\* OLEDManager.update_motion_time(event_time, active)
update_motion_time(event_time, active) ==
    /\ motion_active' = active
    /\ last_motion_time' = Some(event_time)

\* mutant of set_event_message: every event text saves what it replaces
set_event_message_chains(text) ==
    /\ pre_event_message' = Some([mode |-> current_mode,
                                  message |-> current_message])
    /\ current_mode' = "scrolling"
    /\ current_message' = text
    /\ ResetCursor

\* OLEDManager.set_event_message(text): the text is shown until it is
\* restored; pre_event_message keeps what was shown before the first of
\* the event texts
set_event_message(text) ==
    /\ pre_event_message' =
          IF pre_event_message = None
          THEN Some([mode |-> current_mode, message |-> current_message])
          ELSE pre_event_message
    /\ current_mode' = "scrolling"
    /\ current_message' = text
    /\ ResetCursor

\* OLEDManager.restore_previous_message(): nothing to do when no event
\* text is shown
restore_previous_message ==
    IF pre_event_message # None
    THEN /\ current_mode' = Val(pre_event_message).mode
         /\ current_message' = Val(pre_event_message).message
         /\ pre_event_message' = None
         /\ ResetCursor
    ELSE UNCHANGED baseline

\* OLEDManager.set_message(text): the message is replaced; an event text
\* stays on the display and the new message is what it restores
set_message(text) ==
    IF pre_event_message # None
    THEN /\ pre_event_message' = Some([mode |-> "scrolling", message |-> text])
         /\ UNCHANGED <<current_mode, current_message, scroll, phase>>
    ELSE /\ current_mode' = "scrolling"
         /\ current_message' = text
         /\ ResetCursor
         /\ UNCHANGED pre_event_message

\* history: a payload with the three keys and a timestamp that parses
WellFormed(p) ==
    /\ p.type = "dict"
    /\ {"active", "timestamp", "video_url"} \subseteq p.keys
    /\ p.timestamp.type = "str"
    /\ p.timestamp.text \in DOMAIN IsoTime

\* history: what a message asks for
Kind(topic, p) ==
    IF ~WellFormed(p) THEN "invalid"
    ELSE (IF topic = MotionTopic THEN "motion" ELSE "doorbell")
         \o (IF p.active THEN " active" ELSE " inactive")

\* on_message: a message on one of the two event topics arrives and
\* handle_event_message is called with its decoded payload
on_message(topics, payloads, limit) ==
    /\ event.pc = "idle"
    /\ nevents < limit
    /\ nevents' = nevents + 1
    /\ \E topic \in topics, payload \in payloads :
          event' = [NoEvent EXCEPT !.pc = "L157", !.topic = topic,
                                   !.payload = payload]
    /\ UNCHANGED <<display, scroll, temp, motion, timers, call, ncalls,
                   loop_pc, now, phase, history, hdmi, pre_event_message,
                   g_events, audio>>

\* handle_event_message is left: by a return (exc = ""), through its
\* except clause, or by exc leaving it
Ends(ev, exc) ==
    /\ event' = [ev EXCEPT !.pc = "idle",
                           !.logged = exc # "" /\ Catches(exc),
                           !.raised = IF exc # "" /\ ~Catches(exc)
                                      THEN Some(exc) ELSE None]
    /\ g_events' = Append(g_events, [kind |-> Kind(ev.topic, ev.payload),
                                     shown |-> Shown'])

\* history: the handler has called these methods of the managers
Called(ev, names) == [ev EXCEPT !.calls = ev.calls \o names]

\* handle_event_message(topic, payload), one step: the validation, the
\* calls of the OLED manager, turn_on_display, play_sound, play_video.
\* oks: whether a display-power command succeeds
handle_event_message(oks) ==
    /\ event.pc # "idle"
    /\ UNCHANGED <<line1, line2, temp, timers, call, ncalls, loop_pc, now,
                   history, nevents, audio>>
    /\ \/ /\ event.pc = "L157"
          /\ UNCHANGED <<baseline, motion, hdmi>>
          /\ LET exc == Validation(event.payload)
             IN  IF exc # ""
                 THEN Ends(event, exc)
                 ELSE /\ event' = [event EXCEPT
                            !.pc = "L171",
                            !.event_time =
                               Some(fromisoformat(event.payload.timestamp).value)]
                      /\ UNCHANGED g_events
       \/ /\ event.pc = "L171"
          /\ UNCHANGED hdmi
          /\ IF "active" \notin event.payload.keys
             THEN /\ UNCHANGED <<baseline, motion>>
                  /\ Ends(event, "KeyError")
             ELSE /\ IF event.topic = MotionTopic
                     THEN update_motion_time(Val(event.event_time),
                                             event.payload.active)
                     ELSE UNCHANGED motion
                  /\ IF event.payload.active
                     THEN set_event_message(IF event.topic = MotionTopic
                                            THEN MotionOnCamera ELSE AtTheDoor)
                     ELSE restore_previous_message
                  /\ event' = [Called(event,
                                 (IF event.topic = MotionTopic
                                  THEN <<"oled.update_motion_time">> ELSE <<>>)
                                 \o (IF event.payload.active
                                     THEN <<"oled.set_event_message">>
                                     ELSE <<"oled.restore_previous_message">>))
                               EXCEPT !.pc = "L186"]
                  /\ UNCHANGED g_events
       \/ /\ event.pc = "L186"
          /\ UNCHANGED <<baseline, motion>>
          /\ IF event.payload.active
             THEN \E ok \in oks :
                     /\ HdmiBecomes(turn_on_display(Hdmi, ok))
                     /\ g_hdmi' = [g_hdmi EXCEPT !.op = "turn_on_display",
                                      !.failed = ~is_display_on /\ ~ok]
                     /\ event' = [Called(event, <<"hdmi.turn_on_display">>)
                                  EXCEPT !.pc = "L189"]
                     /\ UNCHANGED g_events
             ELSE UNCHANGED hdmi /\ Ends(event, "")
       \/ /\ event.pc = "L189"
          /\ event' = [(IF event.topic = DoorbellTopic
                        THEN Called(event, <<"audio.play_sound">>)
                        ELSE event)
                       EXCEPT !.pc = "L192"]
          /\ UNCHANGED <<baseline, motion, hdmi, g_events>>
       \/ /\ event.pc = "L192"
          /\ UNCHANGED <<baseline, motion>>
          /\ IF "video_url" \notin event.payload.keys
             THEN UNCHANGED hdmi /\ Ends(event, "KeyError")
             ELSE \E ok \in oks :
                     LET url == IF event.payload.video_url # ""
                                THEN event.payload.video_url
                                ELSE DefaultStream
                     IN  /\ HdmiBecomes(play_video(Hdmi, url, ok))
                         /\ g_hdmi' = [g_hdmi EXCEPT !.op = "play_video",
                                          !.failed = ~is_display_on /\ ~ok]
                         /\ Ends(Called(event, <<"hdmi.play_video">>), "")

\* on_message with a message on the third topic: handle_message(payload)
\* with a payload that has a 'text'
handle_message(texts, limit) ==
    /\ event.pc = "idle"
    /\ nevents < limit
    /\ nevents' = nevents + 1
    /\ UNCHANGED <<line1, line2, temp, motion, timers, call, ncalls, loop_pc,
                   now, history, hdmi, event, previous_message,
                   volume_display_thread, threads, is_muted, current_volume>>
    /\ \E text \in texts : set_message(text)
    /\ g_events' = Append(g_events, [kind |-> "message", shown |-> Shown'])
    /\ g_volume' = [g_volume EXCEPT !.wrote = g_volume.base # None]

\* the payloads: not an object, one of the three keys missing, a timestamp
\* that does not parse, and the well-formed ones
Payloads ==
    {NotObject}
    \cup {Object(RequiredFields \ {k}, TRUE, Str("2024-05-01T12:00:00"),
                 CameraStream) : k \in {"active", "timestamp", "video_url"}}
    \cup {Object({"active", "timestamp", "video_url"}, TRUE, ts, CameraStream) :
             ts \in {Str("yesterday"), Num("1714564800")}}
    \cup {Object({"active", "timestamp", "video_url"}, a, Str(t), u) :
             a \in BOOLEAN, t \in DOMAIN IsoTime, u \in {"", CameraStream}}


\* event messages of every shape, one after the other
EventNext ==
    \/ on_message({MotionTopic, DoorbellTopic}, Payloads, MaxEvents)
    \/ handle_event_message(BOOLEAN)

EventSpec == Init /\ [][EventNext]_vars

\* the well-formed payloads of StickySpec
StickyPayloads ==
    {Object({"active", "timestamp", "video_url"}, a,
            Str("2024-05-01T12:00:00"), CameraStream) : a \in BOOLEAN}


\* a message and well-formed motion and doorbell events, in any order
StickyNext ==
    \/ on_message({MotionTopic, DoorbellTopic}, StickyPayloads, StickyMaxEvents)
    \/ handle_event_message({TRUE})
    \/ handle_message({Ready}, StickyMaxEvents)

StickySpec == Init /\ [][StickyNext]_vars

\* the payloads the claim calls invalid
Invalid(p) ==
    \/ p.type # "dict"
    \/ ~({"active", "timestamp", "video_url"} \subseteq p.keys)
    \/ p.timestamp.type # "str"
    \/ p.timestamp.text \notin DOMAIN IsoTime

\* the fields of the OLED, HDMI and audio managers
ManagerState == <<display, scroll, motion, pre_event_message, player,
                  is_display_on, audio>>

ShownBefore(i) == IF i = 1 THEN Blank ELSE g_events[i - 1].shown

Active == {"motion active", "doorbell active"}
Inactive == {"motion inactive", "doorbell inactive"}

Deltas == {5, 0 - 5}

\* f"Volume: {self.current_volume}%" and the text of a muted mixer
VolumeText(volume) == "Volume: " \o ToString(volume) \o "%"
VolumeMuted == "Volume: Muted"

\* threading.Thread.is_alive() of a volume display thread
thread_is_alive(t) == threads[t].state \in {"started", "cancelled", "running"}

\* threading.Timer.cancel() of a volume display thread: it stops a thread
\* whose function has not begun and has no effect on one that runs it
thread_cancel(t) ==
    IF threads[t].state = "started"
    THEN [threads EXCEPT ![t].state = "cancelled"]
    ELSE threads

\* _display_volume_temporarily(message): lines 65-71
_display_volume_temporarily(msg) ==
    LET t == g_volume.n + 1
        others == IF /\ volume_display_thread # None
                     /\ thread_is_alive(Val(volume_display_thread))
                  THEN thread_cancel(Val(volume_display_thread))
                  ELSE threads
    IN  /\ threads' = [others EXCEPT ![t] = [state |-> "started", pc |-> "L56",
                                             message |-> msg, slept |-> 0]]
        /\ volume_display_thread' = Some(t)
        /\ g_volume' = [g_volume EXCEPT
                           !.n = t,
                           !.base = IF g_volume.base = None THEN Some(message)
                                    ELSE g_volume.base]

\* what the encoder callbacks leave alone
AudioFrame ==
    UNCHANGED <<display, scroll, temp, motion, timers, call, ncalls, loop_pc,
                now, phase, history, hdmi, events, previous_message>>

\* adjust_volume(delta): nothing happens while the mixer is muted
adjust_volume(deltas, limit) ==
    /\ g_volume.n < limit
    /\ ~is_muted
    /\ \E d \in deltas :
          LET sum == current_volume + d
              new_volume == IF sum > 100 THEN 100 ELSE IF sum < 0 THEN 0 ELSE sum
          IN  /\ current_volume' = new_volume
              /\ _display_volume_temporarily(VolumeText(new_volume))
    /\ UNCHANGED is_muted
    /\ AudioFrame

\* toggle_mute()
toggle_mute(limit) ==
    /\ g_volume.n < limit
    /\ is_muted' = ~is_muted
    /\ _display_volume_temporarily(IF ~is_muted THEN VolumeMuted
                                   ELSE VolumeText(current_volume))
    /\ UNCHANGED current_volume
    /\ AudioFrame

\* history: the sleeping threads, and the next place in their queue
Sleeping == {t \in ThreadIds : threads[t].state = "running" /\ threads[t].pc = "L60"}
Ticket == Cardinality({t \in ThreadIds : threads[t].slept > 0}) + 1

\* a volume display thread, one step: Timer.run, which calls
\* volume_display unless the timer was cancelled, and the statements of
\* volume_display. Each thread sleeps 5 s: the threads wake in the order
\* in which they went to sleep, and a thread that is not asleep has taken
\* its steps by the time a sleeping one wakes
volume_display ==
    /\ \E t \in ThreadIds :
          LET th == threads[t]
              to(label) == threads' = [threads EXCEPT ![t].pc = label]
              done == threads' = [threads EXCEPT ![t].state = "done", ![t].pc = "-"]
          IN  \/ /\ th.state = "cancelled"
                 /\ done
                 /\ UNCHANGED <<baseline, previous_message>>
              \/ /\ th.state = "started"
                 /\ threads' = [threads EXCEPT ![t].state = "running"]
                 /\ UNCHANGED <<baseline, previous_message>>
              \/ /\ th.state = "running"
                 /\ th.pc = "L56"
                 /\ previous_message' = message
                 /\ to("L58")
                 /\ UNCHANGED baseline
              \/ /\ th.state = "running"
                 /\ th.pc = "L58"
                 /\ set_message(th.message)
                 /\ threads' = [threads EXCEPT ![t].pc = "L60", ![t].slept = Ticket]
                 /\ UNCHANGED previous_message
              \/ /\ th.state = "running"
                 /\ th.pc = "L60"
                 /\ \A u \in Sleeping : threads[u].slept >= th.slept
                 /\ \A u \in ThreadIds :
                       threads[u].state \in {"unborn", "done"} \/ u \in Sleeping
                 /\ to("L62")
                 /\ UNCHANGED <<baseline, previous_message>>
              \/ /\ th.state = "running"
                 /\ th.pc = "L62"
                 /\ IF message = th.message THEN to("L63") ELSE done
                 /\ UNCHANGED <<baseline, previous_message>>
              \/ /\ th.state = "running"
                 /\ th.pc = "L63"
                 /\ set_message(previous_message)
                 /\ done
                 /\ UNCHANGED previous_message
    /\ UNCHANGED <<line1, line2, temp, motion, timers, call, ncalls, loop_pc,
                   now, history, hdmi, event, nevents, g_events,
                   volume_display_thread, is_muted, current_volume, g_volume>>

\* the encoder's callbacks at any time, the display threads, and a message
\* from the MQTT thread
AudioNext ==
    \/ adjust_volume(Deltas, MaxVolumeCalls)
    \/ toggle_mute(MaxVolumeCalls)
    \/ volume_display
    \/ handle_message({Ready}, MaxMessages)

AudioSpec == Init /\ [][AudioNext]_vars

\* every volume display thread has finished
AllFinished == \A t \in ThreadIds : threads[t].state \in {"unborn", "done"}

====
